---- MODULE Spec2Model ----
(***************************************************************************)
(* The mobile external-API middleware of jitsi-meet                        *)
(* (react/features/mobile/external-api/middleware.js): a redux middleware  *)
(* that calls next(action) and then turns conference and config-load       *)
(* actions into NativeModules.ExternalAPI.sendEvent(name, data, scope).    *)
(*                                                                         *)
(* JavaScript values are records of one shape (JSValue); a JavaScript      *)
(* string is the sequence of its characters, so that startsWith, endsWith  *)
(* and slice are computed as the code computes them; a JavaScript object   *)
(* used as a key/value map (an action, the data of an event) is a function *)
(* from its own keys to JSValues.                                          *)
(***************************************************************************)
EXTENDS Integers, Sequences, FiniteSets, TLC

VARIABLES
    polyfill,   \* TRUE when Symbol is the es6-symbol polyfill (toString gives "@@" + description)
    app,        \* getState()['features/app'].app: the mounted App, if any
    dispatched, \* number of actions the middleware has handled
    sent,       \* the calls NativeModules.ExternalAPI.sendEvent has received, in order
    last,       \* what the handling of the latest action did
    probe       \* the latest application of a helper to an argument of its own

vars == <<polyfill, app, dispatched, sent, last, probe>>

\* The number of actions dispatched in one behaviour.
MaxDispatch == 2
\* The length of the descriptions of the Symbols the helpers are applied to.
MaxLabel == 3
\* The length of the names and messages of the errors the helpers are applied to.
MaxText == 2

-----------------------------------------------------------------------------
(* JavaScript values *)

NoString == <<>>

JSValue(kind, cls, str, name, message, recoverable, href) ==
    [kind |-> kind, cls |-> cls, str |-> str, name |-> name,
     message |-> message, recoverable |-> recoverable, href |-> href]

Undefined == JSValue("undefined", "", <<>>, NoString, NoString, FALSE, NoString)
Null      == JSValue("null", "", <<>>, NoString, NoString, FALSE, NoString)
True      == JSValue("boolean", "true", <<>>, NoString, NoString, FALSE, NoString)
False     == JSValue("boolean", "false", <<>>, NoString, NoString, FALSE, NoString)
Str(s)    == JSValue("string", "", s, NoString, NoString, FALSE, NoString)
\* Symbol(description)
Sym(description) == JSValue("symbol", "", description, NoString, NoString, FALSE, NoString)
\* An Error instance or a plain object resembling one: name and message are
\* <<>> when the property is undefined and <<s>> when it is the string s.
ErrorObject(name, message, recoverable) ==
    JSValue("object", "Error", <<>>, name, message, recoverable, NoString)
\* A URL object whose href is s.
URLObject(s) == JSValue("object", "URL", s, NoString, NoString, FALSE, NoString)
\* A JitsiConference; href is <<>> when it has no JITSI_CONFERENCE_URL_KEY
\* property and <<s>> when that property is a URL object of href s.
Conference(href) == JSValue("object", "JitsiConference", <<>>, NoString, NoString, FALSE, href)

\* ToBoolean
Truthy(v) ==
    CASE v.kind = "undefined" -> FALSE
      [] v.kind = "null"      -> FALSE
      [] v.kind = "boolean"   -> v.cls = "true"
      [] v.kind = "string"    -> v.str # <<>>
      [] OTHER                -> TRUE

\* String.prototype.startsWith, endsWith, slice(from) and slice(from, -1)
StartsWith(s, prefix) ==
    Len(s) >= Len(prefix) /\ SubSeq(s, 1, Len(prefix)) = prefix
EndsWith(s, suffix) ==
    Len(s) >= Len(suffix) /\ SubSeq(s, Len(s) - Len(suffix) + 1, Len(s)) = suffix
SliceFrom(s, from) == SubSeq(s, from + 1, Len(s))
SliceInner(s, from) == SubSeq(s, from + 1, Len(s) - 1)

\* obj[key], undefined when obj has no such key
Get(obj, key) == IF key \in DOMAIN obj THEN obj[key] ELSE Undefined
\* const { ...keys, ...rest } = obj: the rest
Rest(obj, keys) == [k \in DOMAIN obj \ keys |-> obj[k]]
\* { ...a, ...b }
Spread(a, b) ==
    [k \in DOMAIN a \cup DOMAIN b |-> IF k \in DOMAIN b THEN b[k] ELSE a[k]]
\* obj[key] = value
Put(obj, key, value) ==
    [k \in DOMAIN obj \cup {key} |-> IF k = key THEN value ELSE obj[k]]

-----------------------------------------------------------------------------
(* The action types and what the middleware imports *)

CONFERENCE_FAILED     == Sym(<<"c", "f">>)
CONFERENCE_JOINED     == Sym(<<"c", "j">>)
CONFERENCE_LEFT       == Sym(<<"c", "l">>)
CONFERENCE_WILL_JOIN  == Sym(<<"c", "w", "j">>)
CONFERENCE_WILL_LEAVE == Sym(<<"c", "w", "l">>)
LOAD_CONFIG_ERROR     == Sym(<<"l", "c", "e">>)
\* An action type the middleware has no case for.
APP_WILL_MOUNT        == Sym(<<"a", "w", "m">>)

\* conference[JITSI_CONFERENCE_URL_KEY]
JITSI_CONFERENCE_URL_KEY(conference) ==
    IF conference.href = NoString THEN Undefined ELSE URLObject(conference.href[1])

\* toURLString of base/util: a string as it is, a URL object as its href,
\* anything else undefined.
toURLString(obj) ==
    CASE obj.kind = "string"                      -> Str(obj.str)
      [] obj.kind = "object" /\ obj.cls = "URL"   -> Str(obj.str)
      [] OTHER                                    -> Undefined

\* Symbol.prototype.toString: "Symbol(description)", and the es6-symbol
\* polyfill's "@@description".
SymbolToString(symbol, poly) ==
    IF poly
    THEN <<"@", "@">> \o symbol.str
    ELSE <<"S", "y", "m", "b", "o", "l", "(">> \o symbol.str \o <<")">>

\* Error.prototype.toString applied to an object.
ErrorPrototypeToString(o) ==
    LET name == IF o.name = NoString THEN <<"E", "r", "r", "o", "r">> ELSE o.name[1]
        msg  == IF o.message = NoString THEN <<>> ELSE o.message[1]
    IN  Str(IF name = <<>> THEN msg
            ELSE IF msg = <<>> THEN name
            ELSE name \o <<":", " ">> \o msg)

-----------------------------------------------------------------------------
(* The helpers of the middleware *)

\* The error handed on as it is.
_toErrorStringSkipped(error) == error

_toErrorString(error) ==
    IF Truthy(error)
    THEN IF error.kind = "string" THEN error ELSE ErrorPrototypeToString(error)
    ELSE Str(<<>>)

\* The wrapper of toString cut at its front only: slice(7) for slice(7, -1).
_getSymbolDescriptionOpenEnded(symbol, poly) ==
    LET description == SymbolToString(symbol, poly)
        unwrapped ==
            IF StartsWith(description, <<"S", "y", "m", "b", "o", "l", "(">>)
               /\ EndsWith(description, <<")">>)
            THEN SliceFrom(description, 7)
            ELSE description
    IN  IF StartsWith(unwrapped, <<"@", "@">>)
        THEN SliceFrom(unwrapped, 2)
        ELSE unwrapped

_getSymbolDescription(symbol, poly) ==
    LET description == SymbolToString(symbol, poly)
        unwrapped ==
            IF StartsWith(description, <<"S", "y", "m", "b", "o", "l", "(">>)
               /\ EndsWith(description, <<")">>)
            THEN SliceInner(description, 7)
            ELSE description
    IN  IF StartsWith(unwrapped, <<"@", "@">>)
        THEN SliceFrom(unwrapped, 2)
        ELSE unwrapped

\* The event sent a second time.
_sendEventTwice(theApp, name, data) ==
    IF theApp.mounted /\ Truthy(theApp.externalAPIScope)
    THEN <<[name |-> name, data |-> data, scope |-> theApp.externalAPIScope],
           [name |-> name, data |-> data, scope |-> theApp.externalAPIScope]>>
    ELSE <<>>

\* The calls of NativeModules.ExternalAPI.sendEvent that _sendEvent makes
\* when getState()['features/app'].app is theApp.
_sendEvent(theApp, name, data) ==
    IF theApp.mounted
    THEN IF Truthy(theApp.externalAPIScope)
         THEN <<[name |-> name, data |-> data, scope |-> theApp.externalAPIScope]>>
         ELSE <<>>
    ELSE <<>>

\* The conference left among the data, and no url derived from it.
_sendConferenceEventWithHandle(theApp, action, poly) ==
    _sendEvent(theApp, _getSymbolDescription(Get(action, "type"), poly),
               Rest(action, {"type"}))

\* The url taken from the action's own url field, never from the conference.
_sendConferenceEventWithoutURL(theApp, action, poly) ==
    _sendEvent(theApp, _getSymbolDescription(Get(action, "type"), poly),
               Rest(action, {"conference", "type"}))

_sendConferenceEvent(theApp, action, poly) ==
    LET conference == Get(action, "conference")
        type == Get(action, "type")
        data == Rest(action, {"conference", "type"})
    IN  _sendEvent(theApp, _getSymbolDescription(type, poly),
                   IF Truthy(conference)
                   THEN Put(data, "url", toURLString(JITSI_CONFERENCE_URL_KEY(conference)))
                   ELSE data)

-----------------------------------------------------------------------------
(* The middleware: store => next => action => { ... } *)

\* What a case of the switch statement does: the calls of sendEvent it makes
\* and the exception it throws ("none" when it completes).
Completed(calls) == [calls |-> calls, raised |-> "none"]
Thrown(exception) == [calls |-> <<>>, raised |-> exception]

\* The if statement without its filter: every error counts as final.
RecoverableIgnored(error) == FALSE

\* error.recoverable, as the if statement reads it.
Recoverable(error) == error.recoverable

\* case CONFERENCE_FAILED: reading a property of an undefined or null error
\* throws a TypeError.
ConferenceFailed(theApp, action, poly) ==
    LET error == Get(action, "error")
        data == Rest(action, {"error"})
    IN  IF error.kind \in {"undefined", "null"}
        THEN Thrown("TypeError")
        ELSE IF ~Recoverable(error)
        THEN Completed(_sendConferenceEvent(
                           theApp,
                           Spread([error |-> _toErrorString(error)], data),
                           poly))
        ELSE Completed(<<>>)

\* The event named after a kind field of the action instead of its type.
LoadConfigErrorNamedByKind(theApp, action, poly) ==
    Completed(_sendEvent(theApp, _getSymbolDescription(Get(action, "kind"), poly),
                         [error |-> _toErrorString(Get(action, "error")),
                          url |-> toURLString(Get(action, "locationURL"))]))

\* case LOAD_CONFIG_ERROR
LoadConfigError(theApp, action, poly) ==
    LET error == Get(action, "error")
        locationURL == Get(action, "locationURL")
        type == Get(action, "type")
    IN  Completed(_sendEvent(theApp, _getSymbolDescription(type, poly),
                             [error |-> _toErrorString(error),
                              url |-> toURLString(locationURL)]))

\* switch (action.type)
Switch(theApp, action, poly) ==
    LET type == Get(action, "type") IN
    CASE type = CONFERENCE_FAILED -> ConferenceFailed(theApp, action, poly)
      [] type \in {CONFERENCE_JOINED, CONFERENCE_LEFT,
                   CONFERENCE_WILL_JOIN, CONFERENCE_WILL_LEAVE} ->
            Completed(_sendConferenceEvent(theApp, action, poly))
      [] type = LOAD_CONFIG_ERROR -> LoadConfigError(theApp, action, poly)
      [] OTHER -> Completed(<<>>)

\* The middleware returning nothing, and keeping from next the actions it
\* has a case for.
MiddlewareSwallowing(theApp, action, result, hostFails, poly) ==
    LET done == Switch(theApp, action, poly) IN
    [nextCalls  |-> IF done.calls = <<>> THEN <<action>> ELSE <<>>,
     calls      |-> done.calls,
     hostFailed |-> done.calls # <<>> /\ hostFails,
     raised     |-> IF done.raised # "none" THEN done.raised
                    ELSE IF done.calls # <<>> /\ hostFails THEN "HostError"
                    ELSE "none",
     returned   |-> <<>>,
     action     |-> action,
     store      |-> theApp]

\* The call of sendEvent wrapped in a try that drops what it throws.
MiddlewareCatching(theApp, action, result, hostFails, poly) ==
    LET done == Switch(theApp, action, poly) IN
    [nextCalls  |-> <<action>>,
     calls      |-> done.calls,
     hostFailed |-> done.calls # <<>> /\ hostFails,
     raised     |-> done.raised,
     returned   |-> IF done.raised = "none" THEN <<result>> ELSE <<>>,
     action     |-> action,
     store      |-> theApp]

\* The url written to the action itself (action.url = ...) when it has a
\* conference.
MiddlewareWritingAction(theApp, action, result, hostFails, poly) ==
    LET done == Switch(theApp, action, poly)
        raised == IF done.raised # "none" THEN done.raised
                  ELSE IF done.calls # <<>> /\ hostFails THEN "HostError"
                  ELSE "none"
    IN  [nextCalls  |-> <<action>>,
         calls      |-> done.calls,
         hostFailed |-> done.calls # <<>> /\ hostFails,
         raised     |-> raised,
         returned   |-> IF raised = "none" THEN <<result>> ELSE <<>>,
         action     |-> IF Truthy(Get(action, "conference"))
                        THEN Put(action, "url",
                                 toURLString(JITSI_CONFERENCE_URL_KEY(action["conference"])))
                        ELSE action,
         store      |-> theApp]

\* One run of the middleware on action. next(action) has returned result and
\* left theApp in the store; hostFails tells whether sendEvent throws. The
\* outcome: the arguments next was called with, the calls of sendEvent,
\* whether sendEvent threw, the exception that left the middleware ("none"
\* when it returned), the value it returned, and the action and the app in
\* the store as the run leaves them: it writes to neither, only to the data
\* it builds.
Middleware(theApp, action, result, hostFails, poly) ==
    LET done == Switch(theApp, action, poly)
        raised == IF done.raised # "none" THEN done.raised
                  ELSE IF done.calls # <<>> /\ hostFails THEN "HostError"
                  ELSE "none"
    IN  [nextCalls  |-> <<action>>,
         calls      |-> done.calls,
         hostFailed |-> done.calls # <<>> /\ hostFails,
         raised     |-> raised,
         returned   |-> IF raised = "none" THEN <<result>> ELSE <<>>,
         action     |-> action,
         store      |-> theApp]

-----------------------------------------------------------------------------
(* The inputs: the actions dispatched, what next(action) returns and leaves
   in the store, and whether the native module throws *)

EmptyObject == [k \in {} |-> Undefined]

Boom          == <<"b", "o", "o", "m">>
TypeErrorName == <<"T", "E">>
SomeMessage   == <<"x">>
RoomURL       == <<"h", "/", "r">>
OtherURL      == <<"h", "/", "o">>
ConfigURL     == <<"h", "/", "c">>
Room1         == <<"r", "1">>

NamedError       == ErrorObject(<<TypeErrorName>>, <<SomeMessage>>, FALSE)
BareError        == ErrorObject(NoString, NoString, FALSE)
RecoverableError == ErrorObject(<<TypeErrorName>>, <<SomeMessage>>, TRUE)

\* The tags a config-load failure may carry in a field of its own.
CONFIG_FETCH_ERROR == Sym(<<"c", ".", "f">>)
CONFIG_NOT_FOUND   == Sym(<<"c", ".", "n">>)

\* {type: CONFERENCE_FAILED, conference, error} as conferenceFailed makes
\* it, an error of every shape; and CONFERENCE_FAILED actions that carry a
\* recoverable field of their own.
ConferenceFailedActions ==
    { Spread([type |-> CONFERENCE_FAILED, conference |-> Conference(<<RoomURL>>)], e) :
        e \in { EmptyObject, [error |-> Str(<<>>)], [error |-> Str(Boom)],
                [error |-> NamedError], [error |-> BareError],
                [error |-> RecoverableError] } }
    \cup
    { [type |-> CONFERENCE_FAILED, error |-> e, recoverable |-> r] :
        e \in { Str(Boom), RecoverableError }, r \in { True, False } }

\* The conference-lifecycle actions: with and without a conference, a url
\* field of their own, and a field that holds a live object.
ConferenceActions ==
    { Spread([type |-> CONFERENCE_JOINED], f) :
        f \in { EmptyObject,
                [conference |-> Conference(<<RoomURL>>)],
                [conference |-> Conference(NoString)],
                [url |-> Str(OtherURL)],
                [conference |-> Conference(<<RoomURL>>), url |-> Str(OtherURL)],
                [conference |-> Conference(<<RoomURL>>),
                 room |-> Conference(<<OtherURL>>)] } }
    \cup
    { [type |-> t, conference |-> Conference(<<RoomURL>>)] :
        t \in { CONFERENCE_LEFT, CONFERENCE_WILL_JOIN, CONFERENCE_WILL_LEAVE } }

LoadConfigErrorActions ==
    { Spread([type |-> LOAD_CONFIG_ERROR, locationURL |-> Str(ConfigURL),
              kind |-> CONFIG_FETCH_ERROR], e) :
        e \in { EmptyObject, [error |-> Str(Boom)], [error |-> NamedError] } }
    \cup
    { [type |-> LOAD_CONFIG_ERROR, error |-> Str(Boom)],
      [type |-> LOAD_CONFIG_ERROR, error |-> Str(Boom),
       locationURL |-> URLObject(ConfigURL), kind |-> CONFIG_FETCH_ERROR],
      [type |-> LOAD_CONFIG_ERROR, error |-> Str(Boom), locationURL |-> Str(ConfigURL),
       kind |-> CONFIG_NOT_FOUND] }

OtherActions == { [type |-> APP_WILL_MOUNT, error |-> Str(Boom)] }

Actions ==
    ConferenceFailedActions \cup ConferenceActions \cup LoadConfigErrorActions
    \cup OtherActions

\* getState()['features/app'].app: undefined, or an App with its props.
NoApp == [mounted |-> FALSE, externalAPIScope |-> Undefined]
App(externalAPIScope) == [mounted |-> TRUE, externalAPIScope |-> externalAPIScope]
Apps == { NoApp, App(Undefined), App(Str(<<>>)), App(Str(Room1)) }

\* What next(action) may leave in the store: the app as it was, no app
\* (APP_WILL_UNMOUNT), or an app mounted where there was none (APP_WILL_MOUNT).
AppsAfter(theApp) == IF theApp.mounted THEN { theApp, NoApp } ELSE Apps

\* The values next(action) returns.
Results == { "r1", "r2" }

-----------------------------------------------------------------------------
(* The state machine *)

NoProbe ==
    [helper |-> "none", symbol |-> Undefined, error |-> Undefined,
     name |-> <<>>, string |-> Undefined]

NoOutcome ==
    [action |-> EmptyObject, nextCalls |-> <<>>, calls |-> <<>>,
     hostFailed |-> FALSE, raised |-> "none", result |-> "r1",
     returned |-> <<>>, actionAfter |-> EmptyObject, store |-> NoApp]

Init ==
    /\ polyfill \in BOOLEAN
    /\ app = NoApp
    /\ dispatched = 0
    /\ sent = <<>>
    /\ last = NoOutcome
    /\ probe = NoProbe

\* The calls of the latest action overtaking those made before.
DeliverAhead(log, calls, n) ==
    [i \in 1..Len(calls) |->
        [name |-> calls[i].name, data |-> calls[i].data,
         scope |-> calls[i].scope, of |-> n]] \o log

\* NativeModules.ExternalAPI receives the calls made while the action
\* numbered n was handled, after those it has received before.
Deliver(log, calls, n) ==
    log \o [i \in 1..Len(calls) |->
              [name |-> calls[i].name, data |-> calls[i].data,
               scope |-> calls[i].scope, of |-> n]]

\* The switch statement run against the store as it was before next(action).
DispatchReadingStoreFirst(action, appAfter, result, hostFails) ==
    /\ dispatched < MaxDispatch
    /\ hostFails => Switch(app, action, polyfill).calls # <<>>
    /\ LET out == Middleware(app, action, result, hostFails, polyfill) IN
        /\ app' = appAfter
        /\ dispatched' = dispatched + 1
        /\ sent' = Deliver(sent, out.calls, dispatched + 1)
        /\ last' = [action |-> action, nextCalls |-> out.nextCalls,
                    calls |-> out.calls, hostFailed |-> out.hostFailed,
                    raised |-> out.raised, result |-> result,
                    returned |-> out.returned, actionAfter |-> out.action,
                    store |-> appAfter]
    /\ UNCHANGED <<polyfill, probe>>

\* store.dispatch(action) reaches the middleware: next(action) runs the
\* reducers, which may mount or unmount the app and leave appAfter in the
\* store, and returns result; the switch statement then runs against the
\* store as next left it. hostFails is a choice only when sendEvent is called.
Dispatch(action, appAfter, result, hostFails) ==
    /\ dispatched < MaxDispatch
    /\ hostFails => Switch(appAfter, action, polyfill).calls # <<>>
    /\ LET out == Middleware(appAfter, action, result, hostFails, polyfill) IN
        /\ app' = out.store
        /\ dispatched' = dispatched + 1
        /\ sent' = Deliver(sent, out.calls, dispatched + 1)
        /\ last' = [action |-> action, nextCalls |-> out.nextCalls,
                    calls |-> out.calls, hostFailed |-> out.hostFailed,
                    raised |-> out.raised, result |-> result,
                    returned |-> out.returned, actionAfter |-> out.action,
                    store |-> appAfter]
    /\ UNCHANGED <<polyfill, probe>>

Next ==
    \E action \in Actions, appAfter \in AppsAfter(app), result \in Results, hostFails \in BOOLEAN :
        Dispatch(action, appAfter, result, hostFails)

Spec == Init /\ [][Next]_vars

-----------------------------------------------------------------------------
(* The helpers on their own: _getSymbolDescription applied to Symbols of
   every short description, _toErrorString to errors of every shape *)

\* The strings of at most n characters of alphabet.
Strings(alphabet, n) == UNION { [1..k -> alphabet] : k \in 0..n }

\* Descriptions with and without the sigil and the wrapper of toString.
Descriptions ==
    Strings({"@", "c", ")"}, MaxLabel)
    \cup { <<"@", "@", "c", ".", "j">>, <<"c", ".", "l", ".", "e">>,
           <<"S", "y", "m", "b", "o", "l", "(">>,
           <<"S", "y", "m", "b", "o", "l", "(", "c", ")">>,
           <<"@", "@", "S", "y", "m", "b", "o", "l", "(", "c", ")">> }

Texts == Strings({"N", ":"}, MaxText)
OptionalTexts == { NoString } \cup { <<t>> : t \in Texts }

\* The errors of the three shapes: absent or empty, a string, an Error or an
\* object resembling one, with and without name, message and other properties.
Errors ==
    { Undefined, Null }
    \cup { Str(t) : t \in Texts \cup { Boom } }
    \cup { ErrorObject(n, m, r) : n \in OptionalTexts, m \in OptionalTexts, r \in BOOLEAN }

InitHelpers ==
    /\ polyfill \in BOOLEAN
    /\ app = NoApp
    /\ dispatched = 0
    /\ sent = <<>>
    /\ last = NoOutcome
    /\ probe = NoProbe

GetSymbolDescription(description) ==
    /\ probe' = [NoProbe EXCEPT !.helper = "_getSymbolDescription",
                                !.symbol = Sym(description),
                                !.name = _getSymbolDescription(Sym(description), polyfill)]
    /\ UNCHANGED <<polyfill, app, dispatched, sent, last>>

ToErrorString(error) ==
    /\ probe' = [NoProbe EXCEPT !.helper = "_toErrorString",
                                !.error = error,
                                !.string = _toErrorString(error)]
    /\ UNCHANGED <<polyfill, app, dispatched, sent, last>>

NextHelpers ==
    \/ \E description \in Descriptions : GetSymbolDescription(description)
    \/ \E error \in Errors : ToErrorString(error)

SpecHelpers == InitHelpers /\ [][NextHelpers]_vars

-----------------------------------------------------------------------------
(* What the claims speak of *)

Handled == dispatched > 0
LastType == Get(last.action, "type")
LastError == Get(last.action, "error")
\* A destination scope is resolvable when sendEvent is reached.
Scoped == app.mounted /\ Truthy(app.externalAPIScope)
ConferenceTypes ==
    {CONFERENCE_JOINED, CONFERENCE_LEFT, CONFERENCE_WILL_JOIN, CONFERENCE_WILL_LEAVE}
MatchedTypes == ConferenceTypes \cup {CONFERENCE_FAILED, LOAD_CONFIG_ERROR}
\* The error is a string or an object, so that it has properties to read.
ErrorPresent == LastError.kind \notin {"undefined", "null"}
\* The one call made while the latest action was handled.
OneCall == Len(last.calls) = 1
TheCall == last.calls[1]

-----------------------------------------------------------------------------
(* C1 *)

\* C1 as the specification states it: a CONFERENCE_FAILED action whose own
\* recoverable field is true makes no call of sendEvent.
C1_ActionFieldSuppresses ==
    (Handled /\ LastType = CONFERENCE_FAILED
        /\ Get(last.action, "recoverable") = True)
    => last.calls = <<>>

\* C1, amended: a CONFERENCE_FAILED action whose error has a truthy
\* recoverable property makes no call of sendEvent, whatever its other
\* fields (a recoverable field of the action included) and whatever is mounted.
C1_RecoverableErrorSuppresses ==
    (Handled /\ LastType = CONFERENCE_FAILED /\ ErrorPresent
        /\ LastError.recoverable)
    => (last.calls = <<>> /\ last.raised = "none")

C1_Witness ==
    /\ Handled /\ LastType = CONFERENCE_FAILED /\ ErrorPresent
    /\ LastError.recoverable
    /\ Get(last.action, "recoverable") = False
    /\ Scoped
    /\ last.calls = <<>>

-----------------------------------------------------------------------------
(* C2 *)

\* C2 as the specification states it: a CONFERENCE_FAILED action whose own
\* recoverable field is false, handled with a scope resolvable, makes exactly
\* one call, whose data.error is a string and not the error object.
C2_ActionFieldFalseSends ==
    (Handled /\ LastType = CONFERENCE_FAILED
        /\ Get(last.action, "recoverable") = False /\ Scoped)
    => /\ OneCall
       /\ "error" \in DOMAIN TheCall.data
       /\ TheCall.data["error"].kind = "string"

\* C2, amended: a CONFERENCE_FAILED action whose error is a string or an
\* object without a truthy recoverable property, handled with a scope
\* resolvable, makes exactly one call, whose data.error is a string; it is
\* the error itself only when the error was a string.
C2_FinalErrorSendsString ==
    (Handled /\ LastType = CONFERENCE_FAILED /\ ErrorPresent
        /\ ~LastError.recoverable /\ Scoped)
    => /\ OneCall
       /\ "error" \in DOMAIN TheCall.data
       /\ TheCall.data["error"].kind = "string"
       /\ (LastError.kind = "string" => TheCall.data["error"] = LastError)
       /\ (LastError.kind # "string" => TheCall.data["error"] # LastError)

C2_Witness ==
    /\ Handled /\ LastType = CONFERENCE_FAILED
    /\ LastError = NamedError
    /\ Scoped /\ OneCall
    /\ TheCall.data["error"].kind = "string"

-----------------------------------------------------------------------------
(* C3 *)

\* C3: when no scope is resolvable, a matched action makes no call of
\* sendEvent and nothing is raised.
C3_NoScopeNoCallNoRaise ==
    (Handled /\ LastType \in MatchedTypes /\ ~Scoped)
    => (last.calls = <<>> /\ last.raised = "none")

-----------------------------------------------------------------------------
(* C4 *)

\* C4 as the specification states it: the event of a LOAD_CONFIG_ERROR
\* action that carries a kind tag of its own is named by the label of that
\* tag.
C4_NamedByInnerKind ==
    (Handled /\ LastType = LOAD_CONFIG_ERROR /\ "kind" \in DOMAIN last.action
        /\ Scoped)
    => (OneCall /\ TheCall.name = last.action["kind"].str)

\* C4, amended: a LOAD_CONFIG_ERROR action handled with scope S resolvable
\* makes exactly one call sendEvent(name, data, S), where name is the label
\* of the action's own type LOAD_CONFIG_ERROR (a kind field does not name
\* it) and data has exactly the keys error, the stringified error, and url,
\* the normalized locationURL.
C4_NamedByType ==
    (Handled /\ LastType = LOAD_CONFIG_ERROR /\ Scoped)
    => /\ OneCall
       /\ TheCall.name = LOAD_CONFIG_ERROR.str
       /\ TheCall.scope = app.externalAPIScope
       /\ DOMAIN TheCall.data = {"error", "url"}
       /\ TheCall.data["error"] = _toErrorString(LastError)
       /\ TheCall.data["error"].kind = "string"
       /\ TheCall.data["url"] = toURLString(Get(last.action, "locationURL"))

C4_Witness ==
    /\ Handled /\ LastType = LOAD_CONFIG_ERROR /\ Scoped /\ OneCall
    /\ Get(last.action, "kind") = CONFIG_FETCH_ERROR
    /\ LastError = Str(Boom)
    /\ TheCall.name = LOAD_CONFIG_ERROR.str
    /\ TheCall.data = [error |-> Str(Boom), url |-> Str(ConfigURL)]
    /\ TheCall.scope = Str(Room1)

-----------------------------------------------------------------------------
(* C5 *)

LastConference == Get(last.action, "conference")

\* C5 as the specification states it: for a conference-lifecycle action the
\* data has the conference's normalized URL as url when the action has a
\* conference and no url key when it has none; conference and type are no
\* keys of the data and no error is raised.
C5_NoConferenceNoURL ==
    (Handled /\ LastType \in ConferenceTypes /\ Scoped)
    => /\ OneCall
       /\ last.raised # "TypeError"
       /\ {"conference", "type"} \cap DOMAIN TheCall.data = {}
       /\ Truthy(LastConference)
            => /\ "url" \in DOMAIN TheCall.data
               /\ TheCall.data["url"]
                    = toURLString(JITSI_CONFERENCE_URL_KEY(LastConference))
       /\ ~Truthy(LastConference) => "url" \notin DOMAIN TheCall.data

\* C5, amended: as above, except that without a conference the data has a
\* url key exactly when the action has a url field of its own, with that
\* field's value.
C5_NoConferenceOwnURL ==
    (Handled /\ LastType \in ConferenceTypes /\ Scoped)
    => /\ OneCall
       /\ last.raised # "TypeError"
       /\ {"conference", "type"} \cap DOMAIN TheCall.data = {}
       /\ Truthy(LastConference)
            => /\ "url" \in DOMAIN TheCall.data
               /\ TheCall.data["url"]
                    = toURLString(JITSI_CONFERENCE_URL_KEY(LastConference))
       /\ ~Truthy(LastConference)
            => /\ "url" \in DOMAIN TheCall.data <=> "url" \in DOMAIN last.action
               /\ "url" \in DOMAIN TheCall.data
                    => TheCall.data["url"] = last.action["url"]

C5_Witness ==
    /\ Handled /\ LastType = CONFERENCE_JOINED /\ Scoped /\ OneCall
    /\ "conference" \notin DOMAIN last.action
    /\ Get(last.action, "url") = Str(OtherURL)
    /\ TheCall.data = [url |-> Str(OtherURL)]

-----------------------------------------------------------------------------
(* C6 *)

\* A value that crosses to the native side as it is: not an object (a
\* conference, an Error, a URL) and not a Symbol.
Serializable(v) == v.kind \notin {"object", "symbol"}

\* C6 as the specification states it: every value of the data of every call
\* ever made is serializable.
C6_AllDataSerializable ==
    \A i \in 1..Len(sent) :
        \A k \in DOMAIN sent[i].data : Serializable(sent[i].data[k])

\* C6, amended: in every call, conference and type are no keys of the data,
\* and a value of the data that is not serializable is a field of the action
\* other than those the middleware replaces, passed on unchanged; what the
\* middleware derives (the error of a CONFERENCE_FAILED or LOAD_CONFIG_ERROR
\* action, the url of a conference) is a string or undefined.
C6_DerivedDataSerializable ==
    /\ \A i \in 1..Len(sent) :
         {"conference", "type"} \cap DOMAIN sent[i].data = {}
    /\ \A i \in 1..Len(last.calls) :
         \A k \in DOMAIN last.calls[i].data :
            LET v == last.calls[i].data[k] IN
            /\ ~Serializable(v) =>
                 /\ k \in DOMAIN last.action
                 /\ v = last.action[k]
                 /\ k = "error" => LastType \in ConferenceTypes
                 /\ k = "url" => ~Truthy(LastConference)
            /\ (k = "error" /\ LastType \in {CONFERENCE_FAILED, LOAD_CONFIG_ERROR})
                 => v.kind = "string"
            /\ (k = "url" /\ (Truthy(LastConference) \/ LastType = LOAD_CONFIG_ERROR))
                 => v.kind \in {"string", "undefined"}

C6_Witness ==
    /\ Handled /\ LastType = CONFERENCE_JOINED /\ OneCall
    /\ "room" \in DOMAIN TheCall.data
    /\ TheCall.data["room"] = Conference(<<OtherURL>>)
    /\ TheCall.data["url"] = Str(RoomURL)

-----------------------------------------------------------------------------
(* C7 *)

-----------------------------------------------------------------------------
(* C8 *)

\* C8: for every dispatched action, matched or not, next is called exactly
\* once, with that same action, and when the middleware returns it returns
\* the value next returned.
C8_PassesOnAndReturns ==
    Handled =>
        /\ last.nextCalls = <<last.action>>
        /\ last.raised = "none" => last.returned = <<last.result>>

C8_Witness ==
    /\ Handled /\ LastType = CONFERENCE_LEFT /\ OneCall
    /\ last.raised = "none"
    /\ last.result = "r2" /\ last.returned = <<"r2">>

-----------------------------------------------------------------------------
(* C9 *)

\* C9: handling a CONFERENCE_FAILED or LOAD_CONFIG_ERROR action raises no
\* exception of its own whatever the shape of error (absent, empty, a
\* string, an object with name and message, an object with neither), and an
\* absent or empty error gives data.error = "".
C9_ErrorShapeNeverRaises ==
    (Handled /\ LastType \in {CONFERENCE_FAILED, LOAD_CONFIG_ERROR})
    => /\ last.raised # "TypeError"
       /\ (~Truthy(LastError) /\ Scoped)
            => (OneCall /\ TheCall.data["error"] = Str(<<>>))

-----------------------------------------------------------------------------
(* C10 *)

\* C10 as the specification states it: the event of a CONFERENCE_FAILED
\* action whose error is final is named by the label of CONFERENCE_FAILED,
\* and its data has the fields of the action other than error and type,
\* unchanged, the stringified error, and no other key.
C10_DataIsActionButError ==
    (Handled /\ LastType = CONFERENCE_FAILED /\ ErrorPresent
        /\ ~LastError.recoverable /\ Scoped)
    => /\ OneCall
       /\ TheCall.name = CONFERENCE_FAILED.str
       /\ DOMAIN TheCall.data = (DOMAIN last.action \ {"type"})
       /\ \A k \in DOMAIN TheCall.data \ {"error"} :
            TheCall.data[k] = last.action[k]
       /\ TheCall.data["error"] = _toErrorString(LastError)

\* C10, amended: the data has the fields of the action other than error,
\* type and conference, unchanged, the stringified error, and, when the
\* action has a conference, url set to the conference's normalized URL (in
\* place of a url field of the action); it has no other key.
C10_DataIsActionButErrorAndConference ==
    (Handled /\ LastType = CONFERENCE_FAILED /\ ErrorPresent
        /\ ~LastError.recoverable /\ Scoped)
    => /\ OneCall
       /\ TheCall.name = CONFERENCE_FAILED.str
       /\ DOMAIN TheCall.data =
            (DOMAIN last.action \ {"type", "conference"})
            \cup (IF Truthy(LastConference) THEN {"url"} ELSE {})
       /\ \A k \in DOMAIN TheCall.data \ {"error", "url"} :
            TheCall.data[k] = last.action[k]
       /\ TheCall.data["error"] = _toErrorString(LastError)
       /\ TheCall.data["error"].kind = "string"
       /\ Truthy(LastConference)
            => TheCall.data["url"]
                 = toURLString(JITSI_CONFERENCE_URL_KEY(LastConference))
       /\ (~Truthy(LastConference) /\ "url" \in DOMAIN last.action)
            => TheCall.data["url"] = last.action["url"]

C10_Witness ==
    /\ Handled /\ LastType = CONFERENCE_FAILED /\ Scoped /\ OneCall
    /\ LastConference = Conference(<<RoomURL>>)
    /\ LastError = BareError
    /\ TheCall.name = CONFERENCE_FAILED.str
    /\ TheCall.data = [error |-> Str(<<"E", "r", "r", "o", "r">>), url |-> Str(RoomURL)]

-----------------------------------------------------------------------------
(* C11 *)

\* C11: while one action is handled sendEvent is called at most once, and
\* not at all when the type of the action is none of CONFERENCE_FAILED,
\* CONFERENCE_JOINED, CONFERENCE_LEFT, CONFERENCE_WILL_JOIN,
\* CONFERENCE_WILL_LEAVE and LOAD_CONFIG_ERROR; no call is repeated or made
\* later, so sendEvent has received the calls of the latest action last and
\* no more calls than actions were dispatched.
C11_AtMostOneCallPerAction ==
    /\ Len(last.calls) <= 1
    /\ (Handled /\ LastType \notin MatchedTypes) => last.calls = <<>>
    /\ Len(sent) <= dispatched
    /\ \A n \in 1..dispatched :
         Cardinality({i \in 1..Len(sent) : sent[i].of = n}) <= 1
    /\ \A i \in 1..Len(last.calls) :
         /\ sent[Len(sent) - Len(last.calls) + i].name = last.calls[i].name
         /\ sent[Len(sent) - Len(last.calls) + i].data = last.calls[i].data

C11_Witness ==
    /\ dispatched = MaxDispatch
    /\ LastType = APP_WILL_MOUNT /\ Scoped
    /\ last.calls = <<>>
    /\ Len(sent) = 1 /\ sent[1].of = 1

-----------------------------------------------------------------------------
(* C12 *)

\* The label of a Symbol as toString renders it inside "Symbol(...)": its
\* description, which the es6-symbol polyfill prefixes with "@@".
Label(symbol) ==
    IF polyfill THEN <<"@", "@">> \o symbol.str ELSE symbol.str
Sigil == <<"@", "@">>
HasSigil(label) == Len(label) >= 2 /\ SubSeq(label, 1, 2) = Sigil

\* C12: _getSymbolDescription gives the label of the Symbol: a label that
\* begins with the sigil "@@" without exactly these two characters (the
\* label "@@c.j" gives "c.j"), a label without the sigil unchanged.
C12_NameIsLabelWithoutSigil ==
    probe.helper = "_getSymbolDescription" =>
        LET label == Label(probe.symbol) IN
        /\ HasSigil(label) =>
             /\ Len(probe.name) = Len(label) - 2
             /\ Sigil \o probe.name = label
        /\ ~HasSigil(label) => probe.name = label

C12_Witness ==
    /\ probe.helper = "_getSymbolDescription"
    /\ ~polyfill
    /\ probe.symbol = Sym(<<"@", "@", "c", ".", "j">>)
    /\ probe.name = <<"c", ".", "j">>

-----------------------------------------------------------------------------
(* C13 *)

\* t occurs in s.
Contains(s, t) ==
    \E i \in 0..(Len(s) - Len(t)) : SubSeq(s, i + 1, i + Len(t)) = t

\* C13: _toErrorString gives a string and nothing but a string: "" for an
\* absent or empty error, a string error itself, "Error" for an object with
\* neither name nor message, and for an object with name N and message M a
\* string that contains N and M, which is N, ": " and M when neither is
\* empty; the other properties of the object have no part in it.
C13_ErrorStringByShape ==
    probe.helper = "_toErrorString" =>
        LET error == probe.error
            string == probe.string
        IN  /\ string = Str(string.str)
            /\ ~Truthy(error) => string.str = <<>>
            /\ error.kind = "string" => string = error
            /\ (error.kind = "object" /\ error.name = NoString
                    /\ error.message = NoString)
                 => string.str = <<"E", "r", "r", "o", "r">>
            /\ (error.kind = "object" /\ error.name # NoString
                    /\ error.message # NoString)
                 => /\ Contains(string.str, error.name[1])
                    /\ Contains(string.str, error.message[1])
                    /\ (error.name[1] # <<>> /\ error.message[1] # <<>>)
                         => string.str
                              = error.name[1] \o <<":", " ">> \o error.message[1]

C13_Witness ==
    /\ probe.helper = "_toErrorString"
    /\ probe.error = ErrorObject(<<(<<"N">>)>>, <<(<<"N", ":">>)>>, TRUE)
    /\ probe.string = Str(<<"N", ":", " ", "N", ":">>)

-----------------------------------------------------------------------------
(* C14 *)

\* C14: when sendEvent throws, the middleware neither catches nor repeats
\* the call: the exception leaves the middleware, which returns nothing,
\* sendEvent has been called once for the action, and next has been called
\* with the action, once, before.
C14_HostFailurePropagates ==
    (Handled /\ last.hostFailed)
    => /\ last.raised = "HostError"
       /\ last.returned = <<>>
       /\ OneCall
       /\ Cardinality({i \in 1..Len(sent) : sent[i].of = dispatched}) = 1
       /\ last.nextCalls = <<last.action>>

C14_Witness ==
    /\ Handled /\ last.hostFailed
    /\ LastType = CONFERENCE_WILL_LEAVE
    /\ last.raised = "HostError"
    /\ last.returned = <<>>
    /\ last.nextCalls = <<last.action>>

-----------------------------------------------------------------------------
(* C15 *)

\* A destination scope is resolvable in the app a.
ScopedApp(a) == a.mounted /\ Truthy(a.externalAPIScope)
\* The step is one run of the middleware.
Handling == dispatched' = dispatched + 1

\* C15: the scope is read after next(action) has returned, from the store
\* as next left it: a call goes to the scope of the app that is mounted
\* then, and none is made when none is mounted then, whatever was mounted
\* before; an action whose processing unmounts the app makes no call, and a
\* conference action whose processing mounts an app with a scope makes its
\* call to that scope.
C15_ScopeReadAfterNext ==
    [][Handling =>
        /\ last'.calls # <<>> =>
             /\ ScopedApp(last'.store)
             /\ \A i \in 1..Len(last'.calls) :
                  last'.calls[i].scope = last'.store.externalAPIScope
        /\ ~ScopedApp(last'.store) => last'.calls = <<>>
        /\ (ScopedApp(app) /\ ~last'.store.mounted) => last'.calls = <<>>
        /\ (~ScopedApp(app) /\ ScopedApp(last'.store)
                /\ Get(last'.action, "type") \in ConferenceTypes)
             => /\ Len(last'.calls) = 1
                /\ last'.calls[1].scope = last'.store.externalAPIScope
      ]_vars

C15_Witness ==
    /\ dispatched = 1
    /\ LastType \in ConferenceTypes
    /\ last.store = App(Str(Room1))
    /\ OneCall /\ TheCall.scope = Str(Room1)

-----------------------------------------------------------------------------
(* C16 *)

\* C16: a run of the middleware changes neither the action nor the app in
\* the store: after it the action has the fields it had, with their values
\* (no url key is added, and error, conference and type are as they were),
\* and the store holds the app next(action) left in it; the url is written
\* to the data alone.
C16_ActionAndStoreUntouched ==
    Handled =>
        /\ last.actionAfter = last.action
        /\ DOMAIN last.actionAfter = DOMAIN last.action
        /\ app = last.store

C16_Witness ==
    /\ Handled /\ LastType = CONFERENCE_JOINED /\ OneCall
    /\ last.action = [type |-> CONFERENCE_JOINED, conference |-> Conference(<<RoomURL>>)]
    /\ TheCall.data = [url |-> Str(RoomURL)]
    /\ last.actionAfter = last.action
    /\ app = last.store

====
